---- MODULE Spec2Model ----
(***************************************************************************)
(* Model of .github/scripts/update_maps_json.py: one run of the script     *)
(* reads maps.json and the campaigns/ tree and rewrites maps.json.         *)
(* Between runs the environment edits the tree.                            *)
(*                                                                         *)
(* Strings that the script inspects (names, titles, versions, paths) are   *)
(* tuples of one-character strings, so that lower(), the "launcher"        *)
(* substring test, the version regex, int()/str() and quote() are computed *)
(* as the script computes them.                                            *)
(***************************************************************************)
EXTENDS Integers, Sequences, FiniteSets, TLC

VARIABLES
    disk,       \* campaigns/ : title -> NoDir or [maps, mods] in directory order
    maps_json,  \* the file maps.json
    last,       \* the run that has just ended (cleared by any later edit)
    runs,       \* number of runs the behaviour may still start
    edits,      \* number of changes to the tree since the last run
    seen        \* what the manifests written so far have listed

vars == <<disk, maps_json, last, runs, edits, seen>>

(* ------------------------------ bounds --------------------------------- *)
MaxRuns == 2     \* runs of the script in one behaviour
MaxHistoryRuns == 3   \* runs of the script in one behaviour that follows the history
MaxFiles == 2    \* files in one campaign directory (mods/ included)
MaxEdits == 1    \* changes to the tree between two runs

(* --------------------------- characters -------------------------------- *)
Digits == <<"0", "1", "2", "3", "4", "5", "6", "7", "8", "9">>
UpperCase == <<"A", "B", "C", "D", "E", "F", "G", "H", "I", "J", "K", "L", "M",
               "N", "O", "P", "Q", "R", "S", "T", "U", "V", "W", "X", "Y", "Z">>
LowerCase == <<"a", "b", "c", "d", "e", "f", "g", "h", "i", "j", "k", "l", "m",
               "n", "o", "p", "q", "r", "s", "t", "u", "v", "w", "x", "y", "z">>

IndexIn(c, table) == CHOOSE i \in DOMAIN table : table[i] = c
IsIn(c, table) == \E i \in DOMAIN table : table[i] = c

\* code point of each character (the order Python compares str by)
OrdTable ==
    (" " :> 32) @@ ("%" :> 37) @@ ("-" :> 45) @@ ("." :> 46) @@ ("/" :> 47) @@ ("_" :> 95) @@
    ("~" :> 126) @@ ("0" :> 48) @@ ("1" :> 49) @@ ("2" :> 50) @@ ("3" :> 51) @@ ("4" :> 52) @@
    ("5" :> 53) @@ ("6" :> 54) @@ ("7" :> 55) @@ ("8" :> 56) @@ ("9" :> 57) @@ ("A" :> 65) @@
    ("B" :> 66) @@ ("C" :> 67) @@ ("D" :> 68) @@ ("E" :> 69) @@ ("F" :> 70) @@ ("G" :> 71) @@
    ("H" :> 72) @@ ("I" :> 73) @@ ("J" :> 74) @@ ("K" :> 75) @@ ("L" :> 76) @@ ("M" :> 77) @@
    ("N" :> 78) @@ ("O" :> 79) @@ ("P" :> 80) @@ ("Q" :> 81) @@ ("R" :> 82) @@ ("S" :> 83) @@
    ("T" :> 84) @@ ("U" :> 85) @@ ("V" :> 86) @@ ("W" :> 87) @@ ("X" :> 88) @@ ("Y" :> 89) @@
    ("Z" :> 90) @@ ("a" :> 97) @@ ("b" :> 98) @@ ("c" :> 99) @@ ("d" :> 100) @@ ("e" :> 101) @@
    ("f" :> 102) @@ ("g" :> 103) @@ ("h" :> 104) @@ ("i" :> 105) @@ ("j" :> 106) @@ ("k" :> 107) @@
    ("l" :> 108) @@ ("m" :> 109) @@ ("n" :> 110) @@ ("o" :> 111) @@ ("p" :> 112) @@ ("q" :> 113) @@
    ("r" :> 114) @@ ("s" :> 115) @@ ("t" :> 116) @@ ("u" :> 117) @@ ("v" :> 118) @@ ("w" :> 119) @@
    ("x" :> 120) @@ ("y" :> 121) @@ ("z" :> 122)
Ord(c) == OrdTable[c]

\* str.lower(), per character
LowerTable ==
    (" " :> " ") @@ ("%" :> "%") @@ ("-" :> "-") @@ ("." :> ".") @@ ("/" :> "/") @@ ("_" :> "_") @@
    ("~" :> "~") @@ ("0" :> "0") @@ ("1" :> "1") @@ ("2" :> "2") @@ ("3" :> "3") @@ ("4" :> "4") @@
    ("5" :> "5") @@ ("6" :> "6") @@ ("7" :> "7") @@ ("8" :> "8") @@ ("9" :> "9") @@ ("A" :> "a") @@
    ("B" :> "b") @@ ("C" :> "c") @@ ("D" :> "d") @@ ("E" :> "e") @@ ("F" :> "f") @@ ("G" :> "g") @@
    ("H" :> "h") @@ ("I" :> "i") @@ ("J" :> "j") @@ ("K" :> "k") @@ ("L" :> "l") @@ ("M" :> "m") @@
    ("N" :> "n") @@ ("O" :> "o") @@ ("P" :> "p") @@ ("Q" :> "q") @@ ("R" :> "r") @@ ("S" :> "s") @@
    ("T" :> "t") @@ ("U" :> "u") @@ ("V" :> "v") @@ ("W" :> "w") @@ ("X" :> "x") @@ ("Y" :> "y") @@
    ("Z" :> "z") @@ ("a" :> "a") @@ ("b" :> "b") @@ ("c" :> "c") @@ ("d" :> "d") @@ ("e" :> "e") @@
    ("f" :> "f") @@ ("g" :> "g") @@ ("h" :> "h") @@ ("i" :> "i") @@ ("j" :> "j") @@ ("k" :> "k") @@
    ("l" :> "l") @@ ("m" :> "m") @@ ("n" :> "n") @@ ("o" :> "o") @@ ("p" :> "p") @@ ("q" :> "q") @@
    ("r" :> "r") @@ ("s" :> "s") @@ ("t" :> "t") @@ ("u" :> "u") @@ ("v" :> "v") @@ ("w" :> "w") @@
    ("x" :> "x") @@ ("y" :> "y") @@ ("z" :> "z")
LowerChar(c) == LowerTable[c]
Lower(s) == [i \in DOMAIN s |-> LowerChar(s[i])]

Codes(s) == [i \in DOMAIN s |-> Ord(s[i])]

\* a < b for tuples of integers, as Python orders str and tuple
SeqLess(a, b) ==
    \E k \in 1..(Len(a) + 1) :
        /\ k <= Len(b)
        /\ \A j \in 1..(k - 1) : a[j] = b[j]
        /\ (k = Len(a) + 1 \/ a[k] < b[k])

\* needle in hay
Contains(hay, needle) ==
    \E i \in 0..(Len(hay) - Len(needle)) :
        \A j \in 1..Len(needle) : hay[i + j] = needle[j]

(* ------------------------- sorted(), list.sort() ------------------------ *)
\* position of a new key in a list of keys already sorted: after every key
\* that is not greater (the sort is stable)
InsertAt(keys, k) ==
    1 + Cardinality({i \in DOMAIN keys : ~ SeqLess(k, keys[i])})

InsertSeq(s, p, x) ==
    [i \in 1..(Len(s) + 1) |-> IF i < p THEN s[i] ELSE IF i = p THEN x ELSE s[i - 1]]

RECURSIVE SortPerm(_, _)
\* the indices 1..n of keys, in the order a stable sort by key puts them
SortPerm(keys, n) ==
    IF n = 0 THEN <<>>
    ELSE LET before == SortPerm(keys, n - 1)
             bkeys  == [i \in DOMAIN before |-> keys[before[i]]]
         IN  InsertSeq(before, InsertAt(bkeys, keys[n]), n)

\* sorted(items, key=...) where keys[i] is the key of items[i]
SortedBy(items, keys) ==
    LET perm == SortPerm(keys, Len(items))
    IN  [i \in DOMAIN items |-> items[perm[i]]]

(* ------------------------- version helpers ------------------------------ *)
NoKey == <<"<no key>">>          \* a key the JSON object does not have
V10 == <<"1", ".", "0">>         \* the literal "1.0"

IsDigits(s) == Len(s) > 0 /\ \A i \in DOMAIN s : IsIn(s[i], Digits)

\* VER_RE.match(ver): ^(\d+)\.(\d+)$
VER_RE(ver) ==
    \E d \in DOMAIN ver :
        /\ ver[d] = "."
        /\ IsDigits(SubSeq(ver, 1, d - 1))
        /\ IsDigits(SubSeq(ver, d + 1, Len(ver)))

DotAt(ver) == CHOOSE d \in DOMAIN ver : ver[d] = "."
GroupMaj(ver) == SubSeq(ver, 1, DotAt(ver) - 1)
GroupMin(ver) == SubSeq(ver, DotAt(ver) + 1, Len(ver))

RECURSIVE ParseInt(_)
\* int(s) of a digit string
ParseInt(s) ==
    IF Len(s) = 0 THEN 0
    ELSE 10 * ParseInt(SubSeq(s, 1, Len(s) - 1)) + (IndexIn(s[Len(s)], Digits) - 1)

RECURSIVE Format(_)
\* str(n) of n >= 0
Format(n) ==
    IF n < 10 THEN <<Digits[n + 1]>>
    ELSE Format(n \div 10) \o <<Digits[(n % 10) + 1]>>

\* bump_minor with a slip: the major part is advanced as well
bump_minor_major_too(ver) ==
    LET v == IF ver = <<>> THEN V10 ELSE ver
        m == IF VER_RE(v) THEN v ELSE V10
    IN  Format(ParseInt(GroupMaj(m)) + 1) \o <<".">> \o Format(ParseInt(GroupMin(m)) + 1)

bump_minor(ver) ==
    LET v == IF ver = <<>> THEN V10 ELSE ver          \* ver or "1.0"
        m == IF VER_RE(v) THEN v ELSE V10             \* ... or VER_RE.match("1.0")
    IN  Format(ParseInt(GroupMaj(m))) \o <<".">> \o Format(ParseInt(GroupMin(m)) + 1)

(* ------------------------------ hashing --------------------------------- *)
Contents == {"c1", "c2"}
\* hexdigest of a file's bytes: never empty, distinct for distinct contents
sha256(content) == CASE content = "c1" -> "d1" [] content = "c2" -> "d2"

(* ------------------------------- paths ---------------------------------- *)
Chars_campaigns == <<"c", "a", "m", "p", "a", "i", "g", "n", "s">>
Chars_mods == <<"m", "o", "d", "s">>
Chars_png == <<".", "p", "n", "g">>
Chars_launcher == <<"l", "a", "u", "n", "c", "h", "e", "r">>
Ext_SC2Map == <<".", "S", "C", "2", "M", "a", "p">>
Ext_SC2Mod == <<".", "S", "C", "2", "M", "o", "d">>

RAW_BASE == <<"https://raw.githubusercontent.com/owner/repo/main/">>

HexDigits == <<"0", "1", "2", "3", "4", "5", "6", "7", "8", "9", "A", "B", "C", "D", "E", "F">>
QuoteChar(c) ==
    IF IsIn(c, LowerCase) \/ IsIn(c, UpperCase) \/ IsIn(c, Digits)
       \/ c \in {"_", ".", "-", "~", "/"}
    THEN <<c>>
    ELSE <<"%", HexDigits[(Ord(c) \div 16) + 1], HexDigits[(Ord(c) % 16) + 1]>>

RECURSIVE quote(_)
\* urllib.parse.quote with the default safe set
quote(s) == IF Len(s) = 0 THEN <<>> ELSE QuoteChar(Head(s)) \o quote(Tail(s))

\* path.relative_to(ROOT).as_posix()
RelPath(title, inMods, name) ==
    Chars_campaigns \o <<"/">> \o title \o <<"/">>
        \o (IF inMods THEN Chars_mods \o <<"/">> ELSE <<>>) \o name

(* --------------------------- the input universe ------------------------- *)
T_A == <<"A", " ", "b">>         \* campaigns/A b
T_B == <<"B">>                   \* campaigns/B
T_Z == <<"Z">>                   \* a title that has no directory
Titles == {T_A, T_B}
\* the order MAPS_DIR.iterdir() yields the directories in
IterDirOrder == <<T_B, T_A>>

N_launcher == <<"L", "a", "u", "n", "c", "h", "e", "r">> \o Ext_SC2Map
N_beta == <<"b", "e", "t", "a">> \o Ext_SC2Map
N_Beta == <<"B", "e", "t", "a">> \o Ext_SC2Map
N_alpha == <<"a", "l", "p", "h", "a">> \o Ext_SC2Mod

\* the file names that may appear in <campaign>/ and in <campaign>/mods/
MapNames(title) == IF title = T_A THEN {N_launcher, N_beta, N_Beta} ELSE {}
ModNames(title) == IF title = T_A THEN {N_alpha} ELSE {}

NoDir == [exists |-> FALSE, maps |-> <<>>, mods |-> <<>>]
EmptyDir == [exists |-> TRUE, maps |-> <<>>, mods |-> <<>>]

File(name, content) == [name |-> name, content |-> content]
NamesOf(list) == {list[i].name : i \in DOMAIN list}
NFiles(dir) == Len(dir.maps) + Len(dir.mods)

(* ------------------------------ the manifest ---------------------------- *)
Entry(name, version, sha, url, release) ==
    [name |-> name, version |-> version, sha256 |-> sha, url |-> url,
     release_asset |-> release]
Block(title, version, maps) ==
    [title |-> title, version |-> version, asset |-> title \o Chars_png, maps |-> maps]

Missing == [kind |-> "missing", blocks |-> <<>>]      \* maps.json does not exist
Malformed == [kind |-> "malformed", blocks |-> <<>>]  \* maps.json is not JSON
Json(blocks) == [kind |-> "json", blocks |-> blocks]

RawUrl(title, inMods, name) == RAW_BASE \o quote(RelPath(title, inMods, name))
RELEASE_URL == <<"https://github.com/owner/repo/releases/download/maps/">>

(* --------------------------- one campaign ------------------------------- *)
\* current.get(title, {}): the last block of that title, or no block
HasBlock(blocks, title) == \E i \in DOMAIN blocks : blocks[i].title = title
CurrentGet(blocks, title) ==
    IF HasBlock(blocks, title)
    THEN blocks[CHOOSE i \in DOMAIN blocks :
                    /\ blocks[i].title = title
                    /\ \A j \in DOMAIN blocks : blocks[j].title = title => j <= i]
    ELSE [title |-> title, version |-> NoKey, asset |-> NoKey, maps |-> <<>>]

HasName(d, name) == \E i \in DOMAIN d : d[i].name = name
At(d, name) == CHOOSE i \in DOMAIN d : d[i].name = name

RECURSIVE old_maps(_, _)
\* {m["name"]: m for m in maps[1..n]}: a dict keeps the place of a key's first
\* insertion and the value of its last
old_maps(maps, n) ==
    IF n = 0 THEN <<>>
    ELSE LET d == old_maps(maps, n - 1)
             m == maps[n]
         IN  IF HasName(d, m.name) THEN [d EXCEPT ![At(d, m.name)] = m]
             ELSE Append(d, m)

\* updated_paths: *.SC2Map of the campaign root, then mods/*.SC2Mod
updated_paths(title, dir) ==
    [i \in DOMAIN dir.maps |->
        [name |-> dir.maps[i].name, content |-> dir.maps[i].content,
         rel |-> RelPath(title, FALSE, dir.maps[i].name)]]
    \o
    [i \in DOMAIN dir.mods |->
        [name |-> dir.mods[i].name, content |-> dir.mods[i].content,
         rel |-> RelPath(title, TRUE, dir.mods[i].name)]]

SortedPaths(paths) == SortedBy(paths, [i \in DOMAIN paths |-> Codes(Lower(paths[i].name))])

\* the update of an entry with a slip: the new hash is not stored
Bumped_keeps_hash(entry, digest) ==
    IF entry.sha256 # digest THEN [entry EXCEPT !.version = bump_minor(@)] ELSE entry

\* the update of an entry with a slip: the hashes are not compared
Bumped_always(entry, digest) ==
    [entry EXCEPT !.version = bump_minor(@), !.sha256 = digest]

\* if entry["sha256"] != digest: the version is bumped and the hash stored
Bumped(entry, digest) ==
    IF entry.sha256 # digest
    THEN [entry EXCEPT !.version = bump_minor(@), !.sha256 = digest]
    ELSE entry

RECURSIVE EntryLoop(_, _, _)
\* the state after the first n passes of the loop over the sorted paths.
\* entry is the object held by old_maps, so what the loop assigns to it is
\* assigned in old_maps too.
EntryLoop(paths, old0, n) ==
    IF n = 0 THEN [old_maps |-> old0, new_entries |-> <<>>, err |-> FALSE]
    ELSE
    LET st     == EntryLoop(paths, old0, n - 1)
        path   == paths[n]
        digest == sha256(path.content)
        found  == HasName(st.old_maps, path.name)
        entry  == IF found THEN st.old_maps[At(st.old_maps, path.name)]
                  ELSE Entry(path.name, V10, "", NoKey, FALSE)
        differs == entry.sha256 # digest
        bumped == Bumped(entry, digest)
        final  == [bumped EXCEPT !.url = RAW_BASE \o quote(path.rel)]
    IN  IF st.err \/ (differs /\ entry.version = NoKey)      \* KeyError: 'version'
        THEN [st EXCEPT !.err = TRUE]
        ELSE [old_maps |-> IF found
                           THEN [st.old_maps EXCEPT ![At(st.old_maps, path.name)] = final]
                           ELSE st.old_maps,
              new_entries |-> Append(st.new_entries, final),
              err |-> FALSE]

\* keep_release with a slip: the release_asset flag is not looked at
keep_release_all(old) == old

\* keep_release: the flagged entries of old_maps, in dict order
keep_release(old) == SelectSeq(old, LAMBDA e : e.release_asset)

\* the resurrect loop with a slip: nothing is appended
Resurrect_none(new_entries, keep) == new_entries

\* the resurrect loop with a slip: existing_names is not looked at
Resurrect_all(new_entries, keep) == new_entries \o keep

\* new_entries after the release-asset entries not on disk are appended
Resurrect(new_entries, keep) ==
    new_entries \o SelectSeq(keep, LAMBDA e : ~ HasName(new_entries, e.name))

IsLauncher(name) == Contains(Lower(name), Chars_launcher)
\* the sort key with a slip: the launcher flag is left out
LauncherKey_name_only(name) == Codes(Lower(name))

LauncherKey(name) == <<IF IsLauncher(name) THEN 0 ELSE 1>> \o Codes(Lower(name))
LauncherSort(entries) ==
    SortedBy(entries, [i \in DOMAIN entries |-> LauncherKey(entries[i].name)])

ByName(entries) == SortedBy(entries, [i \in DOMAIN entries |-> Codes(entries[i].name)])

\* the comparison of a pair with a slip: every pair counts as changed
PairVerdict_always(a, b) == "true"

\* the condition of the campaign bump: "true", "false", or "err" when
\* a["version"] or b["version"] is read from an object without that key
PairVerdict(a, b) ==
    IF a.sha256 # b.sha256 THEN "true"
    ELSE IF a.version = NoKey \/ b.version = NoKey THEN "err"
    ELSE IF a.version # b.version THEN "true" ELSE "false"

\* the condition with a slip: every run counts as a change
Changed_always(new_entries, old) == "true"

\* the condition with a slip: the lengths are not compared (zip stops at the
\* shorter list)
Changed_no_len(new_entries, old) ==
    LET a == ByName(new_entries)
        old_sorted == ByName(old)
        n == IF Len(a) < Len(old_sorted) THEN Len(a) ELSE Len(old_sorted)
        hits == {i \in 1..n : PairVerdict(a[i], old_sorted[i]) # "false"}
        first == CHOOSE i \in hits : \A j \in hits : i <= j
    IN  IF hits = {} THEN "false" ELSE PairVerdict(a[first], old_sorted[first])

Changed(new_entries, old) ==
    LET a == ByName(new_entries)
        old_sorted == ByName(old)
        hits == {i \in DOMAIN a : PairVerdict(a[i], old_sorted[i]) # "false"}
        first == CHOOSE i \in hits : \A j \in hits : i <= j
    IN  IF Len(new_entries) # Len(old_sorted) THEN "true"
        ELSE IF hits = {} THEN "false"
        ELSE PairVerdict(a[first], old_sorted[first])

\* one pass of the loop over the campaign directories
Campaign(blocks, title, dir) ==
    LET old_block == CurrentGet(blocks, title)
        old0      == old_maps(old_block.maps, Len(old_block.maps))
        camp_ver  == IF old_block.version = NoKey THEN V10 ELSE old_block.version
        paths     == SortedPaths(updated_paths(title, dir))
        st        == EntryLoop(paths, old0, Len(paths))
        new_entries == LauncherSort(Resurrect(st.new_entries, keep_release(st.old_maps)))
        changed   == Changed(new_entries, st.old_maps)
    IN  IF st.err \/ changed = "err" THEN [err |-> TRUE, block |-> old_block]
        ELSE [err |-> FALSE,
              block |-> Block(title,
                              IF changed = "true" THEN bump_minor(camp_ver) ELSE camp_ver,
                              new_entries)]

\* the directory scan with a slip: p.is_dir() is not asked
CampDirs_all(d) ==
    SortedBy(IterDirOrder, [i \in DOMAIN IterDirOrder |-> Codes(IterDirOrder[i])])

\* sorted(p for p in MAPS_DIR.iterdir() if p.is_dir())
CampDirs(d) ==
    LET found == SelectSeq(IterDirOrder, LAMBDA t : d[t].exists)
    IN  SortedBy(found, [i \in DOMAIN found |-> Codes(found[i])])

\* the run up to the write: new_manifest, or err when a KeyError ended it
Reconcile(blocks, d) ==
    LET dirs == CampDirs(d)
        res  == [i \in DOMAIN dirs |-> Campaign(blocks, dirs[i], d[dirs[i]])]
    IN  [err |-> \E i \in DOMAIN res : res[i].err,
         new_manifest |-> [i \in DOMAIN res |-> res[i].block]]

(* ------------------------------ the script ------------------------------ *)
\* what ends a run early, drawn by the environment: the repository identity
\* cannot be derived, reading a file to hash it fails, writing maps.json fails
Faults == {"none", "identity", "hash_io", "write_io"}

\* the run with a slip: MAPS_JSON.exists() is not asked, so reading a missing
\* maps.json raises
Outcome_no_exists(fault) ==
    IF fault = "identity" THEN "abort_identity"
    ELSE IF maps_json.kind # "json" THEN "abort_json"
    ELSE IF fault = "hash_io" THEN "abort_hash"
    ELSE IF Reconcile(maps_json.blocks, disk).err THEN "abort_key"
    ELSE IF fault = "write_io" THEN "abort_write"
    ELSE "ok"

Outcome(fault) ==
    IF fault = "identity" THEN "abort_identity"              \* raise SystemExit
    ELSE IF maps_json.kind = "malformed" THEN "abort_json"   \* json.loads raises
    ELSE IF fault = "hash_io" THEN "abort_hash"              \* p.open / f.read raises
    ELSE IF Reconcile(maps_json.blocks, disk).err THEN "abort_key"
    ELSE IF fault = "write_io" THEN "abort_write"
    ELSE "ok"

\* MAPS_JSON.write_text(text): open(mode="w") truncates the file, then the text
\* is written; a failure of the write leaves a prefix of the text, which is
\* not JSON
WriteText(blocks, fails) == IF fails THEN Malformed ELSE Json(blocks)

\* the campaign, name, version and hash of every entry of a manifest
Listed(blocks) ==
    UNION {{<<blocks[b].title, blocks[b].maps[i].name, blocks[b].maps[i].version,
              blocks[b].maps[i].sha256>> : i \in DOMAIN blocks[b].maps} : b \in DOMAIN blocks}

NoRun == [outcome |-> "none", prev |-> Missing, again |-> FALSE]

Run(fault) ==
    /\ runs > 0
    /\ fault = "hash_io" => \E t \in Titles : disk[t].exists /\ NFiles(disk[t]) > 0
    /\ runs' = runs - 1
    /\ edits' = 0
    /\ disk' = disk
    /\ LET outcome == Outcome(fault)
       IN  /\ maps_json' =
                IF outcome \in {"ok", "abort_write"}
                THEN WriteText(Reconcile(maps_json.blocks, disk).new_manifest,
                               outcome = "abort_write")
                ELSE maps_json
           /\ last' = [outcome |-> outcome, prev |-> maps_json,
                       again |-> (last.outcome = "ok")]
           /\ seen' = IF outcome = "ok"
                      THEN seen \cup Listed(Reconcile(maps_json.blocks, disk).new_manifest)
                      ELSE seen

(* ---------------------------- the environment --------------------------- *)
Edited ==
    /\ runs > 0
    /\ edits < MaxEdits
    /\ edits' = edits + 1
    /\ last' = NoRun
    /\ runs' = runs
    /\ seen' = seen

MakeDir(t) ==
    /\ ~ disk[t].exists
    /\ disk' = [disk EXCEPT ![t] = EmptyDir]
    /\ UNCHANGED maps_json
    /\ Edited

RemoveDir(t) ==
    /\ disk[t].exists
    /\ disk' = [disk EXCEPT ![t] = NoDir]
    /\ UNCHANGED maps_json
    /\ Edited

AddFile(t, inMods, name, content, pos) ==
    /\ disk[t].exists
    /\ NFiles(disk[t]) < MaxFiles
    /\ IF inMods
       THEN /\ name \in ModNames(t) \ NamesOf(disk[t].mods)
            /\ pos \in 1..(Len(disk[t].mods) + 1)
            /\ disk' = [disk EXCEPT ![t].mods = InsertSeq(@, pos, File(name, content))]
       ELSE /\ name \in MapNames(t) \ NamesOf(disk[t].maps)
            /\ pos \in 1..(Len(disk[t].maps) + 1)
            /\ disk' = [disk EXCEPT ![t].maps = InsertSeq(@, pos, File(name, content))]
    /\ UNCHANGED maps_json
    /\ Edited

ModifyFile(t, inMods, i, content) ==
    /\ disk[t].exists
    /\ IF inMods
       THEN /\ i \in DOMAIN disk[t].mods
            /\ content # disk[t].mods[i].content
            /\ disk' = [disk EXCEPT ![t].mods[i].content = content]
       ELSE /\ i \in DOMAIN disk[t].maps
            /\ content # disk[t].maps[i].content
            /\ disk' = [disk EXCEPT ![t].maps[i].content = content]
    /\ UNCHANGED maps_json
    /\ Edited

Without(list, i) == [j \in 1..(Len(list) - 1) |-> IF j < i THEN list[j] ELSE list[j + 1]]

RemoveFile(t, inMods, i) ==
    /\ disk[t].exists
    /\ IF inMods
       THEN /\ i \in DOMAIN disk[t].mods
            /\ disk' = [disk EXCEPT ![t].mods = Without(@, i)]
       ELSE /\ i \in DOMAIN disk[t].maps
            /\ disk' = [disk EXCEPT ![t].maps = Without(@, i)]
    /\ UNCHANGED maps_json
    /\ Edited

DeleteManifest ==
    /\ maps_json.kind # "missing"
    /\ maps_json' = Missing
    /\ UNCHANGED disk
    /\ Edited

(* ------------------------------ initial states -------------------------- *)
v(a, b) == Format(a) \o <<".">> \o Format(b)

\* a manifest as an earlier run left it
P_plain ==
    Json(<<Block(T_A, v(1, 0),
                 <<Entry(N_launcher, v(1, 1), "d1", RawUrl(T_A, FALSE, N_launcher), FALSE),
                   Entry(N_beta, v(1, 9), "d1", RawUrl(T_A, FALSE, N_beta), FALSE)>>)>>)

\* a manifest with release-asset entries, a hash of content no longer on
\* disk, a version with a leading zero and a campaign without a directory
P_release ==
    Json(<<Block(T_A, v(2, 9),
                 <<Entry(N_alpha, <<"0", "1", ".", "5">>, "d0", RELEASE_URL \o N_alpha, TRUE),
                   Entry(N_Beta, v(1, 0), "d2", RawUrl(T_A, FALSE, N_Beta), FALSE)>>),
           Block(T_B, v(1, 0),
                 <<Entry(N_beta, v(1, 2), "d1", RELEASE_URL \o N_beta, TRUE)>>),
           Block(T_Z, v(1, 3),
                 <<Entry(N_beta, v(1, 0), "d1", RELEASE_URL \o N_beta, TRUE)>>)>>)

\* a manifest that lists a name twice
P_twice ==
    Json(<<Block(T_A, v(1, 0),
                 <<Entry(N_beta, v(1, 2), "d1", RawUrl(T_A, FALSE, N_beta), FALSE),
                   Entry(N_beta, v(1, 0), "d2", RELEASE_URL \o N_beta, TRUE)>>)>>)

\* a manifest with versions that are empty, of another scheme, or absent
P_versions ==
    Json(<<Block(T_A, NoKey,
                 <<Entry(N_beta, <<>>, "d1", RawUrl(T_A, FALSE, N_beta), FALSE),
                   Entry(N_launcher, <<"1", ".", "0", ".", "0">>, "d1",
                         RELEASE_URL \o N_launcher, TRUE),
                   Entry(N_alpha, NoKey, "d1", RELEASE_URL \o N_alpha, TRUE)>>)>>)

\* every campaigns/ tree of the universe, in every directory order
Files(names) == {File(n, c) : n \in names, c \in Contents}
FileLists(names) ==
    UNION {{l \in [1..k -> Files(names)] :
                \A i, j \in 1..k : l[i].name = l[j].name => i = j} : k \in 0..MaxFiles}
DirsOf(t) ==
    {NoDir} \cup
    {d \in [exists : {TRUE}, maps : FileLists(MapNames(t)), mods : FileLists(ModNames(t))] :
        NFiles(d) <= MaxFiles}
Disks == {d \in [Titles -> UNION {DirsOf(t) : t \in Titles}] : \A t \in Titles : d[t] \in DirsOf(t)}

Init ==
    /\ disk \in Disks
    /\ maps_json \in {Missing, P_plain, P_release}
    /\ last = NoRun
    /\ runs = MaxRuns
    /\ edits = 0
    /\ seen = {}

InitAny ==
    /\ disk \in Disks
    /\ maps_json \in {Missing, Malformed, P_plain, P_release, P_twice, P_versions}
    /\ last = NoRun
    /\ runs = MaxRuns
    /\ edits = 0
    /\ seen = {}

Next ==
    \/ \E fault \in Faults : Run(fault)
    \/ \E t \in Titles : MakeDir(t)
    \/ \E t \in Titles : RemoveDir(t)
    \/ \E t \in Titles, inMods \in BOOLEAN, content \in Contents, pos \in 1..(MaxFiles + 1) :
          \E name \in MapNames(t) \cup ModNames(t) : AddFile(t, inMods, name, content, pos)
    \/ \E t \in Titles, inMods \in BOOLEAN, i \in 1..(MaxFiles + 1), content \in Contents :
          ModifyFile(t, inMods, i, content)
    \/ \E t \in Titles, inMods \in BOOLEAN, i \in 1..(MaxFiles + 1) : RemoveFile(t, inMods, i)
    \/ DeleteManifest

Spec == Init /\ [][Next]_vars

\* the history of a repository: no maps.json yet, one empty campaign
\* directory, and one run more
InitHistory ==
    /\ disk = [t \in Titles |-> IF t = T_A THEN EmptyDir ELSE NoDir]
    /\ maps_json = Missing
    /\ last = NoRun
    /\ runs = MaxHistoryRuns
    /\ edits = 0
    /\ seen = {}

SpecHistory == InitHistory /\ [][Next]_vars

\* the same script, started from any maps.json
SpecAny == InitAny /\ [][Next]_vars

(* ======================================================================= *)
(* Properties.  last records the run that has just ended, so in a state    *)
(* with last.outcome = "ok" the tree is the one that run read, last.prev   *)
(* is the maps.json it read and maps_json is the one it wrote.             *)
(* ======================================================================= *)
RunOk == last.outcome = "ok"
Aborted == last.outcome \notin {"none", "ok"}
PrevBlocks == last.prev.blocks
Written == maps_json.blocks

PrevBlock(t) == CurrentGet(PrevBlocks, t)
NewBlock(t) == CurrentGet(Written, t)
EntriesOf(block) == {block.maps[i] : i \in DOMAIN block.maps}
EntryNames(block) == {block.maps[i].name : i \in DOMAIN block.maps}
DiskFiles(t) ==
    {disk[t].maps[i] : i \in DOMAIN disk[t].maps} \cup {disk[t].mods[i] : i \in DOMAIN disk[t].mods}
DiskNames(t) == {f.name : f \in DiskFiles(t)}
\* the tracked files of campaign t whose content no longer has the stored hash
Modified(t) ==
    {f \in DiskFiles(t) :
        \E e \in EntriesOf(PrevBlock(t)) : e.name = f.name /\ e.sha256 # sha256(f.content)}
\* the version a campaign has before the run ("1.0" when the manifest holds none)
PrevCampVer(t) == IF PrevBlock(t).version = NoKey THEN V10 ELSE PrevBlock(t).version

Major(ver) == ParseInt(GroupMaj(ver))
Minor(ver) == ParseInt(GroupMin(ver))
\* new is old advanced by exactly one minor increment
OneMinorUp(new, old) ==
    /\ VER_RE(new) /\ VER_RE(old)
    /\ Major(new) = Major(old)
    /\ Minor(new) = Minor(old) + 1

\* C1: when a tracked file's hash differs from the stored one and no file was
\* added to or removed from the campaign, the written campaign version is the
\* previous one advanced by exactly one minor increment.
C1_ModificationBumpsCampaign ==
    RunOk =>
        \A t \in Titles :
            ( /\ disk[t].exists
              /\ HasBlock(PrevBlocks, t)
              /\ DiskNames(t) = EntryNames(PrevBlock(t))
              /\ Modified(t) # {} )
            => /\ HasBlock(Written, t)
               /\ OneMinorUp(NewBlock(t).version, PrevBlock(t).version)

\* C2: one new file in a campaign directory yields exactly one new entry in
\* the campaign's next manifest, and that entry has version 1.0.
C2_NewFileAtBaseline ==
    RunOk =>
        \A t \in Titles :
            ( /\ disk[t].exists
              /\ Cardinality(DiskNames(t) \ EntryNames(PrevBlock(t))) = 1 )
            => LET fresh == {e \in EntriesOf(NewBlock(t)) :
                                e.name \notin EntryNames(PrevBlock(t))}
               IN  /\ Cardinality(fresh) = 1
                   /\ \A e \in fresh : e.version = V10

\* The part of C2 that the script does satisfy: exactly one new entry.
C2_ExactlyOneNewEntry ==
    RunOk =>
        \A t \in Titles :
            ( /\ disk[t].exists
              /\ Cardinality(DiskNames(t) \ EntryNames(PrevBlock(t))) = 1 )
            => Cardinality({i \in DOMAIN NewBlock(t).maps :
                               NewBlock(t).maps[i].name \notin EntryNames(PrevBlock(t))}) = 1

\* C3: two runs in succession with no change of the tree between them write
\* the same manifest, whatever maps.json and tree the first one started from.
C3_Idempotent == (RunOk /\ last.again) => maps_json = last.prev

W_C3 ==
    /\ RunOk /\ last.again
    /\ \E i \in DOMAIN Written :
           /\ Len(Written[i].maps) >= 2
           /\ \E e \in EntriesOf(Written[i]) : e.release_asset
           /\ \E e \in EntriesOf(Written[i]) : ~ e.release_asset

\* C4: a file whose hash differs from the hash of its previous entry gets, in
\* the written manifest, the new hash and the previous version with the same
\* major part and the minor part increased by exactly one.
C4_EntryBump ==
    RunOk =>
        \A t \in Titles : \A f \in DiskFiles(t) : \A e \in EntriesOf(PrevBlock(t)) :
            (disk[t].exists /\ e.name = f.name /\ e.sha256 # sha256(f.content))
            => /\ Cardinality({i \in DOMAIN NewBlock(t).maps :
                                  NewBlock(t).maps[i].name = f.name}) = 1
               /\ \A n \in EntriesOf(NewBlock(t)) :
                      n.name = f.name => /\ n.sha256 = sha256(f.content)
                                         /\ OneMinorUp(n.version, e.version)

W_C4 ==
    /\ RunOk
    /\ \E t \in Titles : \E f \in Modified(t) : \E e \in EntriesOf(PrevBlock(t)) :
           \E n \in EntriesOf(NewBlock(t)) :
               /\ e.name = f.name /\ n.name = f.name
               /\ e.version = v(1, 9) /\ n.version = v(1, 10)

\* the flagged entries of campaign t whose file is not on disk
AbsentFlagged(t) ==
    {e \in EntriesOf(PrevBlock(t)) : e.release_asset /\ e.name \notin DiskNames(t)}
\* e is the only entry of its name in the block
OnlyOfName(e, block) ==
    Cardinality({i \in DOMAIN block.maps : block.maps[i].name = e.name}) = 1

\* C5 as stated: a flagged entry whose file is not found on disk is in the
\* next manifest with every field unchanged.
C5_ReleaseAssetKept ==
    RunOk =>
        \A i \in DOMAIN PrevBlocks : \A e \in EntriesOf(PrevBlocks[i]) :
            ( /\ e.release_asset
              /\ OnlyOfName(e, PrevBlocks[i])
              /\ (PrevBlocks[i].title \in Titles
                     => e.name \notin DiskNames(PrevBlocks[i].title)) )
            => \E j \in DOMAIN Written :
                   /\ Written[j].title = PrevBlocks[i].title
                   /\ e \in EntriesOf(Written[j])

\* C5 amended: in a campaign whose directory exists, a flagged entry whose
\* file is not found on disk is in the next manifest with every field
\* unchanged (run after run, as long as the file stays absent).
C5_ReleaseAssetKeptInDir ==
    RunOk =>
        \A t \in Titles : \A e \in AbsentFlagged(t) :
            (disk[t].exists /\ OnlyOfName(e, PrevBlock(t)))
            => /\ HasBlock(Written, t)
               /\ e \in EntriesOf(NewBlock(t))
               /\ OnlyOfName(e, NewBlock(t))

W_C5 ==
    /\ RunOk /\ last.again
    /\ \E t \in Titles :
           /\ disk[t].exists
           /\ DiskNames(t) # {}
           /\ \E e \in AbsentFlagged(t) : e \in EntriesOf(NewBlock(t))

\* C6: an entry that is not flagged and whose file is not found on disk does
\* not appear in the campaign's next manifest.
C6_DeletedDropped ==
    RunOk =>
        \A t \in Titles : \A e \in EntriesOf(PrevBlock(t)) :
            (~ e.release_asset /\ e.name \notin DiskNames(t))
            => \A j \in DOMAIN Written :
                   Written[j].title = t => e.name \notin EntryNames(Written[j])

W_C6 ==
    /\ RunOk
    /\ \E t \in Titles :
           /\ HasBlock(Written, t)
           /\ NewBlock(t).maps # <<>>
           /\ \E e \in EntriesOf(PrevBlock(t)) :
                  ~ e.release_asset /\ e.name \notin DiskNames(t)

\* C7: when the number of entries of a campaign differs from the number the
\* previous manifest held, the campaign version advances by exactly one
\* minor increment, however many files were added or removed.
C7_CountChangeBumpsOnce ==
    RunOk =>
        \A t \in Titles :
            (disk[t].exists /\ Len(NewBlock(t).maps) # Len(PrevBlock(t).maps))
            => OneMinorUp(NewBlock(t).version, PrevCampVer(t))

W_C7 ==
    /\ RunOk
    /\ \E t \in Titles :
           /\ disk[t].exists
           /\ Len(PrevBlock(t).maps) = 0
           /\ Len(NewBlock(t).maps) = 2
           /\ OneMinorUp(NewBlock(t).version, PrevCampVer(t))

\* nothing changed: every campaign of the manifest has its directory, every
\* file has an entry with the file's hash, and every entry has its file
\* (or is a release asset, whose content is not in the tree)
NothingChanged ==
    /\ \A i \in DOMAIN PrevBlocks : PrevBlocks[i].title \in Titles
    /\ \A t \in Titles :
           /\ disk[t].exists <=> HasBlock(PrevBlocks, t)
           /\ DiskNames(t) \subseteq EntryNames(PrevBlock(t))
           /\ \A e \in EntriesOf(PrevBlock(t)) : e.name \in DiskNames(t) \/ e.release_asset
           /\ Modified(t) = {}

\* C8: when no tracked file's hash changed and no file was added or removed,
\* every entry version and every campaign version written equals the
\* previous one.
C8_NoOp ==
    (RunOk /\ NothingChanged) =>
        \A t \in Titles :
            HasBlock(PrevBlocks, t)
            => /\ HasBlock(Written, t)
               /\ NewBlock(t).version = PrevBlock(t).version
               /\ \A e \in EntriesOf(PrevBlock(t)) :
                      \E n \in EntriesOf(NewBlock(t)) :
                          n.name = e.name /\ n.version = e.version
               /\ Len(NewBlock(t).maps) = Len(PrevBlock(t).maps)

W_C8 ==
    /\ RunOk /\ NothingChanged
    /\ ~ last.again
    /\ \E t \in Titles : Len(PrevBlock(t).maps) = 2 /\ Len(disk[t].maps) = 2

\* C9: in every block of every written manifest the entries whose name
\* contains "launcher" (in any case) come first, and within each group the
\* entries are in ascending order of the lower-cased name; carried
\* release-asset entries included.
C9_LauncherFirstSorted ==
    RunOk =>
        \A b \in DOMAIN Written : \A i, j \in DOMAIN Written[b].maps :
            i < j =>
                LET a == Written[b].maps[i].name
                    c == Written[b].maps[j].name
                IN  /\ IsLauncher(c) => IsLauncher(a)
                    /\ (IsLauncher(a) <=> IsLauncher(c))
                           => ~ SeqLess(Codes(Lower(c)), Codes(Lower(a)))

W_C9 ==
    /\ RunOk
    /\ \E b \in DOMAIN Written :
           /\ Len(Written[b].maps) = 3
           /\ Written[b].maps[1].name = N_launcher
           /\ Written[b].maps[2].name = N_alpha
           /\ Written[b].maps[2].release_asset
           /\ N_alpha \notin DiskNames(Written[b].title)

\* C10: when a run aborts, at any point, maps.json is exactly the prior
\* manifest; it is never left partially written.
C10_AbortLeavesManifest == Aborted => maps_json = last.prev

\* the run read maps.json and was not ended by the environment
RanUnfaulted ==
    last.outcome \notin {"none", "abort_identity", "abort_hash", "abort_write"}
\* the file of campaign t with this name
FileOf(t, name) == CHOOSE f \in DiskFiles(t) : f.name = name
\* the written manifest is the one of a first run: one entry for each file
\* found, with the file's hash, and nothing carried from a previous manifest
EveryFileNew ==
    \A t \in Titles :
        disk[t].exists
        => /\ HasBlock(Written, t)
           /\ EntryNames(NewBlock(t)) = DiskNames(t)
           /\ Len(NewBlock(t).maps) = Cardinality(DiskNames(t))
           /\ \A n \in EntriesOf(NewBlock(t)) :
                  /\ n.sha256 = sha256(FileOf(t, n.name).content)
                  /\ ~ n.release_asset

\* C11 as stated: a run that reads a missing or a malformed maps.json is not
\* ended by it; it completes and writes a manifest in which every file found
\* is a new entry.
C11_MissingOrMalformedIsEmpty ==
    (RanUnfaulted /\ last.prev.kind \in {"missing", "malformed"})
    => (RunOk /\ EveryFileNew)

\* C11, amended: a run that reads a missing maps.json completes and writes a
\* manifest in which every file found is a new entry; a run that reads a
\* malformed maps.json never completes.
C11_MissingIsEmpty ==
    /\ (RanUnfaulted /\ last.prev.kind = "missing") => (RunOk /\ EveryFileNew)
    /\ (last.outcome # "none" /\ last.prev.kind = "malformed") => Aborted

W_C11 ==
    /\ RunOk
    /\ last.prev.kind = "missing"
    /\ \E t \in Titles : Len(NewBlock(t).maps) = 2 /\ Len(disk[t].mods) = 1

\* C12 as stated: after a run that completes, the written manifest has
\* exactly one block for each campaign directory and none for any other
\* title, and the block of a directory with no map or mod file has an empty
\* maps list.
C12_OneBlockPerDirectory ==
    RunOk =>
        /\ \A i \in DOMAIN Written :
               Written[i].title \in Titles /\ disk[Written[i].title].exists
        /\ \A t \in Titles :
               disk[t].exists
               => /\ Cardinality({i \in DOMAIN Written : Written[i].title = t}) = 1
                  /\ NFiles(disk[t]) = 0 => NewBlock(t).maps = <<>>

\* C12, amended: after a run that completes, the written manifest has exactly
\* one block for each campaign directory and none for any other title, and
\* the block of a directory with no map or mod file lists the release-asset
\* entries of the previous block and nothing else.
C12_OneBlockPerDirectoryCarried ==
    RunOk =>
        /\ \A i \in DOMAIN Written :
               Written[i].title \in Titles /\ disk[Written[i].title].exists
        /\ \A t \in Titles :
               disk[t].exists
               => /\ Cardinality({i \in DOMAIN Written : Written[i].title = t}) = 1
                  /\ NFiles(disk[t]) = 0
                     => EntriesOf(NewBlock(t)) \subseteq AbsentFlagged(t)

W_C12 ==
    /\ RunOk
    /\ HasBlock(PrevBlocks, T_Z)
    /\ HasBlock(PrevBlocks, T_B) /\ ~ disk[T_B].exists
    /\ \E e \in EntriesOf(PrevBlock(T_B)) : e.release_asset
    /\ disk[T_A].exists /\ NFiles(disk[T_A]) = 0
    /\ Len(Written) = 1
    /\ Len(Written[1].maps) = 1

\* C13: after a run that completes, an entry whose file is on disk has the
\* hash of the file's content; an entry whose file is not on disk is flagged
\* release_asset and has the hash that a flagged entry of its name had in the
\* previous manifest.
C13_HashesCurrent ==
    RunOk =>
        \A t \in Titles : \A n \in EntriesOf(NewBlock(t)) :
            IF n.name \in DiskNames(t)
            THEN n.sha256 = sha256(FileOf(t, n.name).content)
            ELSE /\ n.release_asset
                 /\ \E e \in AbsentFlagged(t) : e.name = n.name /\ e.sha256 = n.sha256

W_C13 ==
    /\ RunOk
    /\ \E t \in Titles :
           /\ Modified(t) # {}
           /\ \E n \in EntriesOf(NewBlock(t)) : n.name \notin DiskNames(t)

\* C14: when a tracked file's content changed, every other entry of the
\* campaign whose file has the content of the stored hash is in the written
\* block with the same name, version and hash.
C14_OthersUntouched ==
    RunOk =>
        \A t \in Titles : \A f \in Modified(t) : \A e \in EntriesOf(PrevBlock(t)) :
            ( /\ disk[t].exists
              /\ e.name # f.name
              /\ e.name \in DiskNames(t)
              /\ e.sha256 = sha256(FileOf(t, e.name).content) )
            => /\ OnlyOfName(e, NewBlock(t))
               /\ \E n \in EntriesOf(NewBlock(t)) :
                      n.name = e.name /\ n.version = e.version /\ n.sha256 = e.sha256

W_C14 ==
    /\ RunOk
    /\ \E t \in Titles : \E f \in Modified(t) : \E e \in EntriesOf(PrevBlock(t)) :
           /\ e.name # f.name
           /\ e.name \in DiskNames(t)
           /\ e.sha256 = sha256(FileOf(t, e.name).content)
           /\ NewBlock(t).maps[1].name = f.name

\* C15: when the set of entry names of a campaign changed (an entry was added
\* or removed), the written campaign version is not the previous one; that
\* includes a run in which one entry went and another came, so that the count
\* is the same.
C15_AddRemoveBumpsCampaign ==
    RunOk =>
        \A t \in Titles :
            (disk[t].exists /\ EntryNames(NewBlock(t)) # EntryNames(PrevBlock(t)))
            => NewBlock(t).version # PrevCampVer(t)

\* C16: in every block of every written manifest the entry names are
\* pairwise distinct, whatever the previous manifest and the tree.
C16_NamesDistinct ==
    RunOk =>
        \A b \in DOMAIN Written : \A i, j \in DOMAIN Written[b].maps :
            i # j => Written[b].maps[i].name # Written[b].maps[j].name

W_C16 ==
    /\ RunOk
    /\ \E t \in Titles :
           /\ \E i, j \in DOMAIN PrevBlock(t).maps :
                  /\ i # j
                  /\ PrevBlock(t).maps[i].name = PrevBlock(t).maps[j].name
                  /\ PrevBlock(t).maps[j].release_asset
                  /\ PrevBlock(t).maps[j].name \in DiskNames(t)
           /\ Len(NewBlock(t).maps) = 2

\* the stored version is missing, empty or not of the form major.minor
BadVersion(ver) == ver = NoKey \/ ~ VER_RE(ver)
\* the entries of the previous block of campaign t, as old_maps holds them
OldMaps(t) == old_maps(PrevBlock(t).maps, Len(PrevBlock(t).maps))

\* C17: a run that bumps an entry or a campaign whose stored version is
\* missing, empty or not of the form major.minor is not ended by that: it
\* completes, the bumped entry has version 1.1, and so has the bumped
\* campaign.
C17_InvalidVersionIsBaseline ==
    (RanUnfaulted /\ last.prev.kind = "json") =>
        \A t \in Titles :
            disk[t].exists
            => /\ \A f \in DiskFiles(t) :
                      ( /\ HasName(OldMaps(t), f.name)
                        /\ OldMaps(t)[At(OldMaps(t), f.name)].sha256 # sha256(f.content)
                        /\ BadVersion(OldMaps(t)[At(OldMaps(t), f.name)].version) )
                      => /\ RunOk
                         /\ \E n \in EntriesOf(NewBlock(t)) :
                                n.name = f.name /\ n.version = v(1, 1)
               /\ ( /\ HasBlock(PrevBlocks, t)
                    /\ BadVersion(PrevBlock(t).version)
                    /\ RunOk
                    /\ Len(NewBlock(t).maps) # Len(PrevBlock(t).maps) )
                  => NewBlock(t).version = v(1, 1)

\* the trees that hold the directories and files of d, the files of each
\* directory enumerated in any order
SameFiles(d) ==
    {e \in Disks :
        \A t \in Titles :
            /\ e[t].exists = d[t].exists
            /\ {e[t].maps[i] : i \in DOMAIN e[t].maps} = {d[t].maps[i] : i \in DOMAIN d[t].maps}
            /\ {e[t].mods[i] : i \in DOMAIN e[t].mods} = {d[t].mods[i] : i \in DOMAIN d[t].mods}}

\* C18: the written manifest depends on the previous manifest and on the set
\* of files only: the run would have written the same manifest from the same
\* maps.json had the file system enumerated the same files in another order.
C18_OrderIndependent ==
    RunOk =>
        \A e \in SameFiles(disk) :
            /\ ~ Reconcile(PrevBlocks, e).err
            /\ Reconcile(PrevBlocks, e).new_manifest = Written

\* C19: a version identifies content over the whole sequence of manifests
\* written: what two of them list for the same campaign and entry name with
\* the same version has the same hash.
C19_VersionIdentifiesContent ==
    \A p, q \in seen :
        (p[1] = q[1] /\ p[2] = q[2] /\ p[3] = q[3]) => p[4] = q[4]

====
